---- MODULE Spec2Model ----
(***************************************************************************)
(* A model of agent-exec (src/src/agent-exec.ts): the command line parser, *)
(* the argument interpolation of runAgent, the child process life cycles   *)
(* of main/runAgent/runSkills/getGitChanges and the change collector.      *)
(*                                                                         *)
(* Text is modelled as a sequence of atoms.  On the command line an atom   *)
(* is a lexeme ("--model", "=", "{prompt}", " ", "fix"); in the output of  *)
(* the status query an atom is one character.  File data is a sequence of  *)
(* bytes 0..255, decoded text is a sequence of code points.                *)
(***************************************************************************)
EXTENDS Integers, Sequences, FiniteSets, TLC

\* ------------------------------------------------------------------------
\* Bounds of the model
\* ------------------------------------------------------------------------
MaxArgv == 3

MaxPass == 2

MaxLines == 1

MaxCap == 2

\* ------------------------------------------------------------------------
\* Program constants
\* ------------------------------------------------------------------------
DEFAULT_FORMAT == "json"

DEFAULT_INPUT == "auto"

DEFAULT_MAX_BYTES == 1000000

SampleSize == 8000

\* ------------------------------------------------------------------------
\* Text helpers (JavaScript string and array primitives)
\* ------------------------------------------------------------------------
\* JavaScript's undefined / null, as a text no input can spell
Undefined == <<"<undefined>">>

PH == "{prompt}"

SP == " "

EQ == "="

Str(a) == <<a>>

IsWhite(a) == a \in {" ", "\t", "\n", "\r"}

\* !value for a string-or-undefined value
Falsy(v) == v = Undefined \/ v = <<>>

SubSeqFrom(s, i) == IF i > Len(s) THEN <<>> ELSE SubSeq(s, i, Len(s))

\* String.prototype.startsWith
StartsWith(s, p) == Len(s) >= Len(p) /\ SubSeq(s, 1, Len(p)) = p

\* String.prototype.includes, for a one-atom needle
IncludesAtom(s, a) == \E i \in 1..Len(s) : s[i] = a

\* String.prototype.includes, for any needle
Includes(s, n) == \E i \in 0..(Len(s) - Len(n)) : SubSeq(s, i + 1, i + Len(n)) = n

RECURSIVE Flatten(_)
Flatten(ss) == IF ss = <<>> THEN <<>> ELSE Head(ss) \o Flatten(Tail(ss))

\* Array.prototype.join(sep)
RECURSIVE Join(_, _)
Join(ss, sep) ==
  IF ss = <<>> THEN <<>>
  ELSE IF Len(ss) = 1 THEN ss[1]
  ELSE ss[1] \o sep \o Join(Tail(ss), sep)

RECURSIVE TrimStart(_)
TrimStart(s) == IF s # <<>> /\ IsWhite(Head(s)) THEN TrimStart(Tail(s)) ELSE s

RECURSIVE TrimEnd(_)
TrimEnd(s) ==
  IF s # <<>> /\ IsWhite(s[Len(s)]) THEN TrimEnd(SubSeq(s, 1, Len(s) - 1)) ELSE s

\* String.prototype.trim
Trim(s) == TrimEnd(TrimStart(s))

\* All sequences over S of length at most n
SeqsUpTo(S, n) == UNION {[1..k -> S] : k \in 0..n}

\* ------------------------------------------------------------------------
\* Environment lookup and normalisation
\* ------------------------------------------------------------------------
AgentNames == {"codex", "claude", "cursor"}

\* agent.toUpperCase()
ToUpperCase(agent) ==
  CASE agent = "codex" -> "CODEX"
    [] agent = "claude" -> "CLAUDE"
    [] agent = "cursor" -> "CURSOR"

\* process.env[`AGENT_EXEC_${name}`] ?? process.env[`AGENT_RUN_${name}`]
getEnvValue(e, name) ==
  IF ("AGENT_EXEC_" \o name) \in DOMAIN e THEN e["AGENT_EXEC_" \o name]
  ELSE IF ("AGENT_RUN_" \o name) \in DOMAIN e THEN e["AGENT_RUN_" \o name]
  ELSE Undefined

IsDigit(a) == a \in {"0", "1", "2", "3", "4", "5", "6", "7", "8", "9"}

DigitVal(a) ==
  CASE a = "0" -> 0 [] a = "1" -> 1 [] a = "2" -> 2 [] a = "3" -> 3 [] a = "4" -> 4
    [] a = "5" -> 5 [] a = "6" -> 6 [] a = "7" -> 7 [] a = "8" -> 8 [] a = "9" -> 9

RECURSIVE Decimal(_)
Decimal(s) == IF s = <<>> THEN 0 ELSE 10 * Decimal(SubSeq(s, 1, Len(s) - 1)) + DigitVal(s[Len(s)])

\* Number(value) for the texts of the model: undefined and non-numeric text
\* are NaN, the empty text is 0, a run of digits is its decimal value
NumberOf(v) ==
  IF v = Undefined THEN [finite |-> FALSE, val |-> 0]
  ELSE IF \A i \in 1..Len(v) : IsDigit(v[i]) THEN [finite |-> TRUE, val |-> Decimal(v)]
  ELSE [finite |-> FALSE, val |-> 0]

normalizeMaxBytes(v) ==
  LET parsed == NumberOf(v)
  IN IF parsed.finite /\ parsed.val > 0 THEN parsed.val ELSE DEFAULT_MAX_BYTES

normalizeFormat(v) ==
  IF v = Str("json") THEN "json" ELSE IF v = Str("text") THEN "text" ELSE DEFAULT_FORMAT

\* the agent name, or "null"
normalizeAgent(v) ==
  IF v = Str("codex") THEN "codex"
  ELSE IF v = Str("claude") THEN "claude"
  ELSE IF v = Str("cursor") THEN "cursor"
  ELSE "null"

normalizeInput(v) ==
  IF v = Str("auto") THEN "auto"
  ELSE IF v = Str("arg") THEN "arg"
  ELSE IF v = Str("stdin") THEN "stdin"
  ELSE IF v = Str("none") THEN "none"
  ELSE DEFAULT_INPUT

getModelFlag(e, agent) ==
  LET perAgent == getEnvValue(e, "MODEL_FLAG_" \o ToUpperCase(agent))
      global == getEnvValue(e, "MODEL_FLAG")
  IN IF ~Falsy(perAgent) THEN perAgent
     ELSE IF ~Falsy(global) THEN global
     ELSE Str("--model")

\* hasFlag without the flag=value form
hasFlagExact(args, flag) == \E i \in 1..Len(args) : args[i] = flag

hasFlag(args, flag) ==
  \E i \in 1..Len(args) : args[i] = flag \/ StartsWith(args[i], flag \o Str(EQ))

\* value.split(" ").map(trim).filter(Boolean)
RECURSIVE SplitOn(_, _, _)
SplitOn(s, sep, cur) ==
  IF s = <<>> THEN <<cur>>
  ELSE IF Head(s) = sep THEN <<cur>> \o SplitOn(Tail(s), sep, <<>>)
  ELSE SplitOn(Tail(s), sep, Append(cur, Head(s)))

NonEmpty(s) == s # <<>>

splitArgs(v) ==
  IF Falsy(v) THEN <<>>
  ELSE LET parts == SplitOn(v, SP, <<>>)
           trimmed == [i \in 1..Len(parts) |-> Trim(parts[i])]
       IN SelectSeq(trimmed, NonEmpty)

Or(v, d) == IF Falsy(v) THEN d ELSE v

buildAgentConfigs(e) ==
  << [name |-> "codex", cmd |-> Or(getEnvValue(e, "CODEX_CMD"), Str("codex")),
      args |-> splitArgs(getEnvValue(e, "CODEX_ARGS"))],
     [name |-> "claude", cmd |-> Or(getEnvValue(e, "CLAUDE_CMD"), Str("claude")),
      args |-> splitArgs(getEnvValue(e, "CLAUDE_ARGS"))],
     [name |-> "cursor", cmd |-> Or(getEnvValue(e, "CURSOR_CMD"), Str("agent")),
      args |-> splitArgs(getEnvValue(e, "CURSOR_ARGS"))] >>

NoConfig == [name |-> "null", cmd |-> Undefined, args |-> <<>>]

selectAgent(configs, agent) ==
  IF agent = "null" THEN NoConfig
  ELSE IF \E i \in 1..Len(configs) : configs[i].name = agent
       THEN configs[CHOOSE i \in 1..Len(configs) :
                      /\ configs[i].name = agent
                      /\ \A j \in 1..(i - 1) : configs[j].name # agent]
       ELSE NoConfig

\* ------------------------------------------------------------------------
\* parseArgs
\* ------------------------------------------------------------------------
At(argv, i) == IF i \in 1..Len(argv) THEN argv[i] ELSE Undefined

InitialOptions(e) ==
  [agent |-> normalizeAgent(getEnvValue(e, "AGENT")),
   dir |-> Str("/cwd"),
   format |-> normalizeFormat(getEnvValue(e, "FORMAT")),
   input |-> normalizeInput(getEnvValue(e, "INPUT")),
   maxBytes |-> normalizeMaxBytes(getEnvValue(e, "MAX_BYTES")),
   includeContent |-> Falsy(getEnvValue(e, "NO_CONTENT")),
   list |-> FALSE,
   modelId |-> Undefined,
   help |-> FALSE]

\* the for loop of parseArgs from index i on; st.threw names the Error thrown
RECURSIVE ParseLoop(_, _, _)
ParseLoop(argv, i, st) ==
  IF i > Len(argv) THEN st
  ELSE
    LET arg == argv[i]
        value == At(argv, i + 1)
    IN
    IF st.inPassthrough
      THEN ParseLoop(argv, i + 1, [st EXCEPT !.passthrough = Append(@, arg)])
    ELSE IF arg = Str("--")
      THEN ParseLoop(argv, i + 1, [st EXCEPT !.inPassthrough = TRUE])
    ELSE IF arg = Str("-h") \/ arg = Str("--help")
      THEN ParseLoop(argv, i + 1, [st EXCEPT !.options.help = TRUE])
    ELSE IF arg = Str("--list")
      THEN ParseLoop(argv, i + 1, [st EXCEPT !.options.list = TRUE])
    ELSE IF arg = Str("-a") \/ arg = Str("--agent")
      THEN IF normalizeAgent(value) = "null"
             THEN [st EXCEPT !.threw = "Invalid agent"]
             ELSE ParseLoop(argv, i + 2, [st EXCEPT !.options.agent = normalizeAgent(value)])
    ELSE IF arg = Str("-d") \/ arg = Str("--dir")
      THEN ParseLoop(argv, i + 2, [st EXCEPT !.options.dir = value])
    ELSE IF arg = Str("-m") \/ arg = Str("--model") \/ arg = Str("--model-id")
      THEN IF Falsy(value)
             THEN [st EXCEPT !.threw = "Missing value for --model."]
             ELSE ParseLoop(argv, i + 2, [st EXCEPT !.options.modelId = value])
    ELSE IF arg = Str("-f") \/ arg = Str("--format")
      THEN ParseLoop(argv, i + 2, [st EXCEPT !.options.format = normalizeFormat(value)])
    ELSE IF arg = Str("--json")
      THEN ParseLoop(argv, i + 1, [st EXCEPT !.options.format = "json"])
    ELSE IF arg = Str("--text")
      THEN ParseLoop(argv, i + 1, [st EXCEPT !.options.format = "text"])
    ELSE IF arg = Str("--input")
      THEN ParseLoop(argv, i + 2, [st EXCEPT !.options.input = normalizeInput(value)])
    ELSE IF arg = Str("--arg")
      THEN ParseLoop(argv, i + 1, [st EXCEPT !.options.input = "arg"])
    ELSE IF arg = Str("--stdin")
      THEN ParseLoop(argv, i + 1, [st EXCEPT !.options.input = "stdin"])
    ELSE IF arg = Str("--no-input")
      THEN ParseLoop(argv, i + 1, [st EXCEPT !.options.input = "none"])
    ELSE IF arg = Str("--max-bytes")
      THEN ParseLoop(argv, i + 2, [st EXCEPT !.options.maxBytes = normalizeMaxBytes(value)])
    ELSE IF arg = Str("--no-content")
      THEN ParseLoop(argv, i + 1, [st EXCEPT !.options.includeContent = FALSE])
    ELSE IF arg = Str("--content")
      THEN ParseLoop(argv, i + 1, [st EXCEPT !.options.includeContent = TRUE])
    ELSE ParseLoop(argv, i + 1, [st EXCEPT !.positional = Append(@, arg)])

\* parseArgs(argv): threw = "" when it returns, else the Error's message
parseArgs(e, argv) ==
  LET st == ParseLoop(argv, 1,
                      [options |-> InitialOptions(e), positional |-> <<>>,
                       passthrough |-> <<>>, inPassthrough |-> FALSE, threw |-> ""])
  IN [threw |-> st.threw,
      options |-> st.options,
      prompt |-> Trim(Join(st.positional, Str(SP))),
      passthrough |-> st.passthrough]

\* ------------------------------------------------------------------------
\* interpolateArgs and the argument assembly of runAgent
\* ------------------------------------------------------------------------
\* arg.replaceAll("{prompt}", prompt)
ReplaceAll(arg, prompt) ==
  Flatten([i \in 1..Len(arg) |-> IF arg[i] = PH THEN prompt ELSE <<arg[i]>>])

interpolateArgs(args, prompt) ==
  [args |-> [i \in 1..Len(args) |->
               IF IncludesAtom(args[i], PH) THEN ReplaceAll(args[i], prompt) ELSE args[i]],
   usedPrompt |-> \E i \in 1..Len(args) : IncludesAtom(args[i], PH)]

\* BaseArgs with the passthrough tokens put first
BaseArgsPassthroughFirst(interpolated, passthrough, modelFlag, modelId) ==
  LET assembled == passthrough \o interpolated.args
  IN IF ~Falsy(modelId) /\ ~hasFlag(assembled, modelFlag)
       THEN assembled \o <<modelFlag, modelId>>
       ELSE assembled

\* let baseArgs = [...interpolated.args, ...passthrough], then the model pair
BaseArgs(interpolated, passthrough, modelFlag, modelId) ==
  LET assembled == interpolated.args \o passthrough
  IN IF ~Falsy(modelId) /\ ~hasFlag(assembled, modelFlag)
       THEN assembled \o <<modelFlag, modelId>>
       ELSE assembled

\* AppendsPrompt without the test of the input mode
AppendsPromptAnyMode(interpolated, prompt, inputMode) ==
  ~Falsy(prompt) /\ ~interpolated.usedPrompt

\* AppendsPrompt without the test of usedPrompt
AppendsPromptAlways(interpolated, prompt, inputMode) ==
  ~Falsy(prompt) /\ inputMode \in {"arg", "auto"}

\* if (prompt) { ... }: does runAgent append the prompt as the last argument
AppendsPrompt(interpolated, prompt, inputMode) ==
  /\ ~Falsy(prompt)
  /\ inputMode \in {"arg", "auto"}
  /\ ~interpolated.usedPrompt

\* if (prompt) { ... }: does runAgent write the prompt to the child's stdin
SendsPrompt(interpolated, prompt, inputMode) ==
  ~Falsy(prompt) /\ inputMode = "stdin"

\* runAgent up to the spawn call: everything it hands to spawn
RunPlan(e, config, prompt, inputMode, passthrough, format, modelId) ==
  LET interpolated == interpolateArgs(config.args, prompt)
      modelFlag == getModelFlag(e, config.name)
      baseArgs == BaseArgs(interpolated, passthrough, modelFlag, modelId)
      append == AppendsPrompt(interpolated, prompt, inputMode)
      sendPrompt == SendsPrompt(interpolated, prompt, inputMode)
      stdinMode == IF sendPrompt THEN "pipe" ELSE "inherit"
      usePipes == format = "json" \/ stdinMode = "pipe"
  IN [interpolated |-> interpolated,
      modelFlag |-> modelFlag,
      assembled |-> interpolated.args \o passthrough,
      baseArgs |-> baseArgs,
      appended |-> append,
      finalArgs |-> IF append THEN Append(baseArgs, prompt) ELSE baseArgs,
      sendPrompt |-> sendPrompt,
      stdio |-> IF usePipes THEN <<stdinMode, "pipe", "pipe">>
                ELSE <<"inherit", "inherit", "inherit">>]

\* ------------------------------------------------------------------------
\* Change collector: binary heuristic, UTF-8 decoding, status line parsing
\* ------------------------------------------------------------------------
Min(a, b) == IF a < b THEN a ELSE b

\* subarray that cuts nothing
SubarrayWhole(buffer, n) == buffer

\* buffer.subarray(0, n)
Subarray(buffer, n) == SubSeq(buffer, 1, Min(Len(buffer), n))

IsPrintable(byte) == byte = 9 \/ byte = 10 \/ byte = 13 \/ (byte >= 32 /\ byte <= 126)

\* isProbablyBinary without the return on a null byte
isProbablyBinaryRatioOnly(buffer) ==
  LET sample == Subarray(buffer, SampleSize)
      nonPrintable == Cardinality({i \in 1..Len(sample) : ~IsPrintable(sample[i])})
  IN Len(sample) > 0 /\ 10 * nonPrintable > 3 * Len(sample)

isProbablyBinary(buffer) ==
  LET sample == Subarray(buffer, SampleSize)
      nonPrintable == Cardinality({i \in 1..Len(sample) : ~IsPrintable(sample[i])})
  IN IF \E i \in 1..Len(sample) : sample[i] = 0 THEN TRUE
     ELSE Len(sample) > 0 /\ 10 * nonPrintable > 3 * Len(sample)

\* UTF-8: the length a lead byte announces, 0 for a byte that leads nothing
LeadLen(b) ==
  IF b >= 194 /\ b <= 223 THEN 2
  ELSE IF b >= 224 /\ b <= 239 THEN 3
  ELSE IF b >= 240 /\ b <= 244 THEN 4
  ELSE 0

IsCont(b) == b >= 128 /\ b <= 191

\* the second byte a lead accepts (no overlong forms, no surrogates, <= U+10FFFF)
SecondOk(lead, b) ==
  IF lead = 224 THEN b >= 160 /\ b <= 191
  ELSE IF lead = 237 THEN b >= 128 /\ b <= 159
  ELSE IF lead = 240 THEN b >= 144 /\ b <= 191
  ELSE IF lead = 244 THEN b >= 128 /\ b <= 143
  ELSE IsCont(b)

\* bytes of the longest well-formed prefix of a character that starts at lead i
PrefixLen(bytes, i) ==
  LET n == LeadLen(bytes[i])
      has2 == n >= 2 /\ i + 1 <= Len(bytes) /\ SecondOk(bytes[i], bytes[i + 1])
      has3 == has2 /\ n >= 3 /\ i + 2 <= Len(bytes) /\ IsCont(bytes[i + 2])
      has4 == has3 /\ n >= 4 /\ i + 3 <= Len(bytes) /\ IsCont(bytes[i + 3])
  IN IF has4 THEN 4 ELSE IF has3 THEN 3 ELSE IF has2 THEN 2 ELSE 1

\* byte i belongs to the character (or the ill-formed prefix) of an earlier lead
Absorbed(bytes, i) ==
  \E d \in 1..3 : i - d >= 1 /\ LeadLen(bytes[i - d]) > 0 /\ PrefixLen(bytes, i - d) > d

\* the code point decoded at a byte that is not absorbed; U+FFFD for ill-formed input
CodePointAt(bytes, i) ==
  LET b == bytes[i]
      n == LeadLen(b)
  IN IF b < 128 THEN b
     ELSE IF n = 0 \/ PrefixLen(bytes, i) < n THEN 65533
     ELSE IF n = 2 THEN (b - 192) * 64 + (bytes[i + 1] - 128)
     ELSE IF n = 3 THEN (b - 224) * 4096 + (bytes[i + 1] - 128) * 64 + (bytes[i + 2] - 128)
     ELSE (b - 240) * 262144 + (bytes[i + 1] - 128) * 4096
            + (bytes[i + 2] - 128) * 64 + (bytes[i + 3] - 128)

\* buffer.toString("utf-8"): the text as a sequence of code points
ToStringUtf8(bytes) ==
  LET idx == [i \in 1..Len(bytes) |-> i]
      starts == SelectSeq(idx, LAMBDA i : ~Absorbed(bytes, i))
  IN [k \in 1..Len(starts) |-> CodePointAt(bytes, starts[k])]

\* String.prototype.length: UTF-16 code units, two for a code point above U+FFFF
StringLength(text) == Len(text) + Cardinality({k \in 1..Len(text) : text[k] > 65535})

\* String.prototype.split for a text separator
RECURSIVE SplitStr(_, _, _)
SplitStr(s, sep, cur) ==
  IF s = <<>> THEN <<cur>>
  ELSE IF StartsWith(s, sep) THEN <<cur>> \o SplitStr(SubSeqFrom(s, Len(sep) + 1), sep, <<>>)
  ELSE SplitStr(Tail(s), sep, Append(cur, Head(s)))

\* stdout.split(/\r?\n/).filter(Boolean)
SplitLines(stdout) ==
  LET parts == SplitStr(stdout, <<"\n">>, <<>>)
      n == Len(parts)
      strip(i) == IF i < n /\ parts[i] # <<>> /\ parts[i][Len(parts[i])] = "\r"
                    THEN SubSeq(parts[i], 1, Len(parts[i]) - 1)
                    ELSE parts[i]
  IN SelectSeq([i \in 1..n |-> strip(i)], NonEmpty)

\* String.prototype.slice(a, b) for 0 <= a <= b
Slice(s, a, b) == SubSeq(s, a + 1, Min(b, Len(s)))

Arrow == <<" ", "-", ">", " ">>

\* line.slice(0, 2).trim()
StatusOf(line) == Trim(Slice(line, 0, 2))

\* line.slice(3).trim(), then the destination of a rename
FileOf(line) ==
  LET file == Trim(Slice(line, 3, Len(line)))
  IN IF Includes(file, Arrow)
       THEN LET segs == SplitStr(file, Arrow, <<>>)
                last == segs[Len(segs)]
            IN IF last = <<>> THEN file ELSE last
       ELSE file

\* an absent content field, and a read that throws
NoContent == <<-1>>

ReadFails == <<-2>>

\* one loop body of getGitChanges for a line with a path; data is what
\* fs.readFile returned, or ReadFails
ChangeOf(line, maxBytes, includeContent, data) ==
  LET base == [path |-> FileOf(line), status |-> StatusOf(line),
               content |-> NoContent, truncated |-> FALSE, binary |-> FALSE]
  IN IF ~includeContent \/ data = ReadFails THEN base
     ELSE IF isProbablyBinary(data) THEN [base EXCEPT !.binary = TRUE]
     ELSE IF Len(data) > maxBytes
       THEN [base EXCEPT !.content = ToStringUtf8(Subarray(data, maxBytes)),
                         !.truncated = TRUE]
     ELSE [base EXCEPT !.content = ToStringUtf8(data)]

\* the loop of getGitChanges up to its next await: lines without a path are
\* skipped, and without content inclusion no line waits for a read
RECURSIVE Advance(_, _, _, _)
Advance(lines, changes, maxBytes, includeContent) ==
  IF lines = <<>> THEN [lines |-> lines, changes |-> changes]
  ELSE IF FileOf(Head(lines)) = <<>>
    THEN Advance(Tail(lines), changes, maxBytes, includeContent)
  ELSE IF ~includeContent
    THEN Advance(Tail(lines),
                 Append(changes, ChangeOf(Head(lines), maxBytes, includeContent, ReadFails)),
                 maxBytes, includeContent)
  ELSE [lines |-> lines, changes |-> changes]

\* ------------------------------------------------------------------------
\* State
\* ------------------------------------------------------------------------
VARIABLES
  argv,        \* process.argv.slice(2)
  env,         \* process.env, the AGENT_EXEC_* and AGENT_RUN_* entries
  pc,          \* where main is: "main", "skills", "agent", "git", "read", "done", "crashed"
  options,     \* parseArgs(...).options
  prompt,      \* parseArgs(...).prompt
  passthrough, \* parseArgs(...).passthrough
  selected,    \* the AgentConfig main selected
  plan,        \* the locals of runAgent at its spawn call
  spawned,     \* what was handed to spawn for the agent: cmd, args, cwd, stdio
  childStdin,  \* the texts written to the agent's stdin
  agentProc,   \* the agent child: "none", "running", "closed", "failed"
  gitProc,     \* the git child: "none", "running", "closed", "failed"
  skillsProc,  \* the npx child: "none", "running", "failed", "closed"
  runResult,   \* what runAgent resolved with
  lines,       \* getGitChanges: the status lines not yet handled
  changes,     \* getGitChanges: the changes array
  reads,       \* getGitChanges: what fs.readFile gave for each change pushed
  diag,        \* what the tool itself wrote with console.error
  out,         \* what the tool wrote with console.log
  exitCode,    \* process.exitCode (0 while unset)
  crashed      \* an exception nothing caught ended the process

vars == <<argv, env, pc, options, prompt, passthrough, selected, plan, spawned,
          childStdin, agentProc, gitProc, skillsProc, runResult, lines, changes,
          reads, diag, out, exitCode, crashed>>

\* the exit status the operating system sees: an uncaught exception exits with 1
ToolExit == IF crashed THEN 1 ELSE exitCode

NoPlan ==
  [interpolated |-> [args |-> <<>>, usedPrompt |-> FALSE], modelFlag |-> Undefined,
   assembled |-> <<>>, baseArgs |-> <<>>, appended |-> FALSE, finalArgs |-> <<>>,
   sendPrompt |-> FALSE, stdio |-> <<>>]

NoSpawn == [cmd |-> Undefined, args |-> <<>>, cwd |-> Undefined, stdio |-> <<>>]

NoResult == [exitCode |-> 0, args |-> <<>>]

\* an exit code of null: the child was ended by a signal
NullCode == -1

InitWith(argvSet, envSet) ==
  /\ argv \in argvSet
  /\ env \in envSet
  /\ pc = "main"
  /\ options = InitialOptions(<<>>)
  /\ prompt = <<>>
  /\ passthrough = <<>>
  /\ selected = NoConfig
  /\ plan = NoPlan
  /\ spawned = NoSpawn
  /\ childStdin = <<>>
  /\ agentProc = "none"
  /\ gitProc = "none"
  /\ skillsProc = "none"
  /\ runResult = NoResult
  /\ lines = <<>>
  /\ changes = <<>>
  /\ reads = <<>>
  /\ diag = <<>>
  /\ out = <<>>
  /\ exitCode = 0
  /\ crashed = FALSE

\* path.resolve(dir) with the process in /cwd
PathResolve(dir) ==
  IF dir = <<>> THEN Str("/cwd")
  ELSE IF Head(dir) = "/" THEN dir
  ELSE <<"/cwd", "/">> \o dir

\* ------------------------------------------------------------------------
\* main, up to its first await
\* ------------------------------------------------------------------------
Parsed == parseArgs(env, argv)

IsSkills == At(argv, 1) = Str("skills")

\* main reached the agent checks: parseArgs returned, no help, no list
WantsRun == ~IsSkills /\ Parsed.threw = "" /\ ~Parsed.options.help /\ ~Parsed.options.list

Chosen == selectAgent(buildAgentConfigs(env), Parsed.options.agent)

\* Finish that leaves process.exitCode unset
FinishWithoutStatus(code, messages) ==
  /\ pc' = "done"
  /\ exitCode' = exitCode
  /\ diag' = diag \o messages

\* console.error(...messages), process.exitCode = code, return
Finish(code, messages) ==
  /\ pc' = "done"
  /\ exitCode' = code
  /\ diag' = diag \o messages

\* runSkills: commandExists("npx") is false
SkillsNoNpx ==
  /\ pc = "main" /\ IsSkills
  /\ Finish(1, <<"npx is required to run the skills installer. Install Node.js 18+.">>)
  /\ UNCHANGED <<argv, env, options, prompt, passthrough, selected, plan, spawned,
                 childStdin, agentProc, gitProc, skillsProc, runResult, lines, changes,
                 reads, out, crashed>>

\* runSkills: spawn(npx, ["skills", ...args])
SkillsSpawn ==
  /\ pc = "main" /\ IsSkills
  /\ pc' = "skills"
  /\ skillsProc' = "running"
  /\ UNCHANGED <<argv, env, options, prompt, passthrough, selected, plan, spawned,
                 childStdin, agentProc, gitProc, runResult, lines, changes, reads,
                 diag, out, exitCode, crashed>>

\* child.on("error"): console.error, resolve(1); main sets process.exitCode
SkillsError ==
  /\ pc = "skills" /\ skillsProc = "running"
  /\ skillsProc' = "failed"
  /\ Finish(1, <<"spawn error">>)
  /\ UNCHANGED <<argv, env, options, prompt, passthrough, selected, plan, spawned,
                 childStdin, agentProc, gitProc, runResult, lines, changes, reads,
                 out, crashed>>

\* child.on("close"): resolve(code ?? 0), unless the error event resolved first
SkillsClose(code) ==
  /\ skillsProc \in {"running", "failed"}
  /\ skillsProc' = "closed"
  /\ IF skillsProc = "running"
       THEN Finish(IF code = NullCode THEN 0 ELSE code, <<>>)
       ELSE UNCHANGED <<pc, exitCode, diag>>
  /\ UNCHANGED <<argv, env, options, prompt, passthrough, selected, plan, spawned,
                 childStdin, agentProc, gitProc, runResult, lines, changes, reads,
                 out, crashed>>

\* parseArgs throws; main().catch reports the message and sets the exit code
ParseThrows ==
  /\ pc = "main" /\ ~IsSkills /\ Parsed.threw # ""
  /\ Finish(1, <<Parsed.threw>>)
  /\ UNCHANGED <<argv, env, options, prompt, passthrough, selected, plan, spawned,
                 childStdin, agentProc, gitProc, skillsProc, runResult, lines, changes,
                 reads, out, crashed>>

\* options.help: console.log(getUsage())
Help ==
  /\ pc = "main" /\ ~IsSkills /\ Parsed.threw = "" /\ Parsed.options.help
  /\ pc' = "done"
  /\ options' = Parsed.options
  /\ prompt' = Parsed.prompt
  /\ passthrough' = Parsed.passthrough
  /\ out' = Append(out, [kind |-> "usage"])
  /\ UNCHANGED <<argv, env, selected, plan, spawned, childStdin, agentProc, gitProc,
                 skillsProc, runResult, lines, changes, reads, diag, exitCode, crashed>>

\* options.list: listAgents prints one line per config, with commandExists(cmd)
List(available) ==
  /\ pc = "main" /\ ~IsSkills /\ Parsed.threw = ""
  /\ ~Parsed.options.help /\ Parsed.options.list
  /\ pc' = "done"
  /\ options' = Parsed.options
  /\ prompt' = Parsed.prompt
  /\ passthrough' = Parsed.passthrough
  /\ out' = out \o [i \in 1..Len(buildAgentConfigs(env)) |->
                     [kind |-> "agent", name |-> buildAgentConfigs(env)[i].name,
                      available |-> available[i], cmd |-> buildAgentConfigs(env)[i].cmd]]
  /\ UNCHANGED <<argv, env, selected, plan, spawned, childStdin, agentProc, gitProc,
                 skillsProc, runResult, lines, changes, reads, diag, exitCode, crashed>>

\* !options.agent, or selectAgent found no config
NoAgent ==
  /\ pc = "main" /\ WantsRun
  /\ Parsed.options.agent = "null" \/ Chosen = NoConfig
  /\ options' = Parsed.options
  /\ prompt' = Parsed.prompt
  /\ passthrough' = Parsed.passthrough
  /\ IF Parsed.options.agent = "null"
       THEN Finish(1, <<"Missing agent.", "usage">>)
       ELSE Finish(1, <<"Unknown agent.">>)
  /\ UNCHANGED <<argv, env, selected, plan, spawned, childStdin, agentProc, gitProc,
                 skillsProc, runResult, lines, changes, reads, out, crashed>>

\* !commandExists(selected.cmd)
AgentNotFound ==
  /\ pc = "main" /\ WantsRun /\ Chosen # NoConfig
  /\ options' = Parsed.options
  /\ prompt' = Parsed.prompt
  /\ passthrough' = Parsed.passthrough
  /\ selected' = Chosen
  /\ Finish(1, <<"Agent CLI not found: set AGENT_EXEC_" \o ToUpperCase(Chosen.name) \o "_CMD.">>)
  /\ UNCHANGED <<argv, env, plan, spawned, childStdin, agentProc, gitProc, skillsProc,
                 runResult, lines, changes, reads, out, crashed>>

\* commandExists holds, path.resolve(options.dir) throws a TypeError for an
\* undefined dir; main().catch reports it
ResolveThrows ==
  /\ pc = "main" /\ WantsRun /\ Chosen # NoConfig
  /\ Parsed.options.dir = Undefined
  /\ options' = Parsed.options
  /\ prompt' = Parsed.prompt
  /\ passthrough' = Parsed.passthrough
  /\ selected' = Chosen
  /\ Finish(1, <<"The \"paths[0]\" argument must be of type string.">>)
  /\ UNCHANGED <<argv, env, plan, spawned, childStdin, agentProc, gitProc, skillsProc,
                 runResult, lines, changes, reads, out, crashed>>

\* does runAgent write the prompt to child.stdin after spawn
WritesStdin(p) == p.sendPrompt /\ p.stdio[1] = "pipe"

\* commandExists holds: runAgent assembles the arguments and spawns the agent
RunAgent ==
  /\ pc = "main" /\ WantsRun /\ Chosen # NoConfig
  /\ Parsed.options.dir # Undefined
  /\ LET p == RunPlan(env, Chosen, Parsed.prompt, Parsed.options.input,
                      Parsed.passthrough, Parsed.options.format, Parsed.options.modelId)
     IN /\ plan' = p
        /\ spawned' = [cmd |-> Chosen.cmd, args |-> p.finalArgs,
                       cwd |-> PathResolve(Parsed.options.dir), stdio |-> p.stdio]
        /\ childStdin' = IF WritesStdin(p) THEN <<Parsed.prompt>> ELSE <<>>
  /\ options' = Parsed.options
  /\ prompt' = Parsed.prompt
  /\ passthrough' = Parsed.passthrough
  /\ selected' = Chosen
  /\ agentProc' = "running"
  /\ pc' = "agent"
  /\ UNCHANGED <<argv, env, gitProc, skillsProc, runResult, lines, changes, reads,
                 diag, out, exitCode, crashed>>

\* ------------------------------------------------------------------------
\* The agent child, and main after runAgent
\* ------------------------------------------------------------------------
\* CollectsChanges for every format
CollectsChangesAlways(format) == TRUE

\* main collects changes only for the structured record
CollectsChanges(format) == format = "json"

\* process.exitCode set to the agent's exit code
ExitAfterRunPropagated(result) == result.exitCode

\* main after runAgent never assigns process.exitCode: it keeps its value
ExitAfterRun(result) == exitCode

\* console.log(JSON.stringify(output, null, 2))
Record(result, chs) ==
  [kind |-> "record", ok |-> result.exitCode = 0, agent |-> selected.name,
   model |-> options.modelId, command |-> selected.cmd, args |-> result.args,
   cwd |-> spawned.cwd, exitCode |-> result.exitCode, changes |-> chs]

\* child.on("close"): resolve({exitCode: code ?? 0, args: finalArgs}); main goes
\* on to spawn the status query, or to the diagnostic line of the text format
AgentClose(code) ==
  /\ pc = "agent" /\ agentProc = "running"
  /\ agentProc' = "closed"
  /\ LET result == [exitCode |-> IF code = NullCode THEN 0 ELSE code,
                    args |-> plan.finalArgs]
     IN /\ runResult' = result
        /\ IF CollectsChanges(options.format)
             THEN /\ gitProc' = "running"
                  /\ pc' = "git"
                  /\ UNCHANGED <<diag, exitCode>>
             ELSE /\ pc' = "done"
                  /\ gitProc' = gitProc
                  /\ exitCode' = ExitAfterRun(result)
                  /\ diag' = IF result.exitCode # 0
                               THEN Append(diag, "agent-exec exited with code "
                                                   \o ToString(result.exitCode))
                               ELSE diag
  /\ UNCHANGED <<argv, env, options, prompt, passthrough, selected, plan, spawned,
                 childStdin, skillsProc, lines, changes, reads, out, crashed>>

\* the child emits "error" (the launch failed): runAgent registered no listener
\* for it, so the event is thrown as an uncaught exception and the process ends
AgentError ==
  /\ pc = "agent" /\ agentProc = "running"
  /\ agentProc' = "failed"
  /\ crashed' = TRUE
  /\ pc' = "crashed"
  /\ UNCHANGED <<argv, env, options, prompt, passthrough, selected, plan, spawned,
                 childStdin, gitProc, skillsProc, runResult, lines, changes, reads,
                 diag, out, exitCode>>

\* ------------------------------------------------------------------------
\* getGitChanges
\* ------------------------------------------------------------------------
\* no read was made for this change
NotRead == <<-3>>

Pad(rs, n) == [i \in 1..n |-> IF i <= Len(rs) THEN rs[i] ELSE NotRead]

\* the loop of getGitChanges runs on to its next await or to its end, where main
\* prints the record
Continue(st, rs) ==
  /\ changes' = st.changes
  /\ lines' = st.lines
  /\ reads' = Pad(rs, Len(st.changes))
  /\ IF st.lines = <<>>
       THEN /\ pc' = "done"
            /\ out' = Append(out, Record(runResult, st.changes))
            /\ exitCode' = ExitAfterRun(runResult)
       ELSE /\ pc' = "read"
            /\ out' = out
            /\ exitCode' = exitCode

\* child.on("close") of git status: resolve({stdout, exitCode: code ?? 1})
GitClose(code, stdout) ==
  /\ pc = "git" /\ gitProc = "running"
  /\ gitProc' = "closed"
  /\ LET exit == IF code = NullCode THEN 1 ELSE code
     IN IF exit # 0
          THEN Continue([lines |-> <<>>, changes |-> <<>>], <<>>)
          ELSE Continue(Advance(SplitLines(stdout), <<>>, options.maxBytes,
                                options.includeContent), <<>>)
  /\ UNCHANGED <<argv, env, options, prompt, passthrough, selected, plan, spawned,
                 childStdin, agentProc, skillsProc, runResult, diag, crashed>>

\* git emits "error" (it could not be launched): no listener, uncaught exception
GitError ==
  /\ pc = "git" /\ gitProc = "running"
  /\ gitProc' = "failed"
  /\ crashed' = TRUE
  /\ pc' = "crashed"
  /\ UNCHANGED <<argv, env, options, prompt, passthrough, selected, plan, spawned,
                 childStdin, agentProc, skillsProc, runResult, lines, changes, reads,
                 diag, out, exitCode>>

\* await fs.readFile(absPath) returns data, or throws (data = ReadFails)
ReadFile(data) ==
  /\ pc = "read" /\ lines # <<>>
  /\ LET change == ChangeOf(Head(lines), options.maxBytes, options.includeContent, data)
     IN Continue(Advance(Tail(lines), Append(changes, change), options.maxBytes,
                         options.includeContent),
                 Append(Pad(reads, Len(changes)), data))
  /\ UNCHANGED <<argv, env, options, prompt, passthrough, selected, plan, spawned,
                 childStdin, agentProc, gitProc, skillsProc, runResult, diag, crashed>>

\* ------------------------------------------------------------------------
\* Inputs
\* ------------------------------------------------------------------------
ExitCodes == {0, 2, NullCode}

\* the command line of the control flow specification
Vocab ==
  {Str("skills"), Str("--"), Str("--help"), Str("--list"), Str("--agent"), Str("codex"),
   Str("--model"), Str("--text"), Str("--dir"), Str("--format"), Str("fix")}

MainArgvSet == SeqsUpTo(Vocab, MaxArgv)

MainEnvSet ==
  { [PATH |-> Str("/bin")],
    [AGENT_RUN_AGENT |-> Str("codex"), AGENT_EXEC_CODEX_ARGS |-> <<"-p", SP, PH>>,
     AGENT_EXEC_INPUT |-> Str("stdin")],
    [AGENT_EXEC_AGENT |-> Str("bogus"), AGENT_RUN_AGENT |-> Str("claude")] }

MainStdouts == {<<>>, <<" ", "M", " ", "a", "\n">>}

MainFiles == {<<65>>, ReadFails}

Init == InitWith(MainArgvSet, MainEnvSet)

Next ==
  \/ SkillsNoNpx
  \/ SkillsSpawn
  \/ SkillsError
  \/ \E code \in ExitCodes : SkillsClose(code)
  \/ ParseThrows
  \/ Help
  \/ \E available \in [1..3 -> BOOLEAN] : List(available)
  \/ NoAgent
  \/ AgentNotFound
  \/ ResolveThrows
  \/ RunAgent
  \/ \E code \in ExitCodes : AgentClose(code)
  \/ AgentError
  \/ \E code \in ExitCodes, stdout \in MainStdouts : GitClose(code, stdout)
  \/ GitError
  \/ \E data \in MainFiles : ReadFile(data)

Spec == Init /\ [][Next]_vars

\* ------------------------------------------------------------------------
\* The argument assembly specification: one agent, every input mode, with and
\* without a model, prompts, templates and passthrough tokens
\* ------------------------------------------------------------------------
PassTokens == {Str("--model"), <<"--model", EQ, "y">>, Str("-v")}

PromptTokens == {<<>>, <<Str("fix")>>, <<Str("fix"), Str("it")>>, <<<<"--model", EQ, "x">>>>}

ArgsArgvSet ==
  {mode \o model \o format \o words \o pass :
     mode \in {<<>>, <<Str("--arg")>>, <<Str("--stdin")>>, <<Str("--no-input")>>},
     model \in {<<>>, <<Str("--model"), Str("gpt")>>},
     format \in {<<>>, <<Str("--text")>>},
     words \in PromptTokens,
     pass \in {<<>>} \cup {<<Str("--")>> \o p : p \in SeqsUpTo(PassTokens, MaxPass)}}

ArgsEnvSet ==
  { [AGENT_EXEC_AGENT |-> Str("claude")],
    [AGENT_EXEC_AGENT |-> Str("claude"), AGENT_EXEC_CLAUDE_ARGS |-> <<"-p", SP, PH>>],
    [AGENT_EXEC_AGENT |-> Str("claude"), AGENT_EXEC_CLAUDE_ARGS |-> <<"--prompt", EQ, PH>>],
    [AGENT_EXEC_AGENT |-> Str("claude"), AGENT_EXEC_CLAUDE_ARGS |-> <<"--model", SP, "m1">>],
    [AGENT_EXEC_AGENT |-> Str("claude"), AGENT_RUN_CLAUDE_ARGS |-> <<"--model", EQ, PH, SP, "-q">>],
    [AGENT_EXEC_AGENT |-> Str("claude"), AGENT_RUN_MODEL_FLAG |-> Str("-v"),
     AGENT_EXEC_MODEL_FLAG_CLAUDE |-> <<>>] }

InitArgs == InitWith(ArgsArgvSet, ArgsEnvSet)

NextArgs ==
  \/ RunAgent
  \/ \E code \in ExitCodes : AgentClose(code)
  \/ AgentError

SpecArgs == InitArgs /\ [][NextArgs]_vars

\* ------------------------------------------------------------------------
\* The change collector specification: status outputs, files and byte caps
\* ------------------------------------------------------------------------
\* the decimal text of a natural number
RECURSIVE ToDigits(_)
ToDigits(n) ==
  LET d == CHOOSE a \in {"0", "1", "2", "3", "4", "5", "6", "7", "8", "9"} : DigitVal(a) = n % 10
  IN IF n < 10 THEN <<d>> ELSE Append(ToDigits(n \div 10), d)

CapSet == (1..MaxCap) \cup {7, SampleSize + 1}

GitArgvSet ==
  {<<Str("--max-bytes"), ToDigits(c)>> : c \in CapSet} \cup {<<Str("--no-content")>>}

GitEnvSet == {[AGENT_EXEC_AGENT |-> Str("codex")]}

\* lines of git status --porcelain=v1, and one line that names no path
LineSet ==
  { <<" ", "M", " ", "a">>,
    <<"?", "?", " ", "b", "c">>,
    <<"R", " ", " ", "a", " ", "-", ">", " ", "b">>,
    <<"?", "?", " ">> }

GitStdouts ==
  {Flatten([i \in 1..Len(ls) |-> ls[i] \o <<"\n">>]) : ls \in SeqsUpTo(LineSet, MaxLines)}
    \cup {<<" ", "M", " ", "a", "\r", "\n", "D", " ", " ", "b", "\r", "\n">>}

Fill(byte, n) == [i \in 1..n |-> byte]

\* file data: empty, text, a null byte, a high byte, text that ends in a two byte
\* and in a four byte character, and a null byte at the end and just past the
\* end of the sample
FileSet ==
  { <<>>, <<65, 66, 67>>, <<65, 0>>, <<169>>,
    Fill(65, 6) \o <<195, 169>>,
    Fill(65, 10) \o <<240, 159, 152, 128>>,
    Fill(65, SampleSize - 1) \o <<0>>,
    Fill(65, SampleSize) \o <<0>> }

InitGit == InitWith(GitArgvSet, GitEnvSet)

NextGit ==
  \/ RunAgent
  \/ \E code \in {0, 2} : AgentClose(code)
  \/ \E code \in {0, 1}, stdout \in GitStdouts : GitClose(code, stdout)
  \/ \E data \in FileSet \cup {ReadFails} : ReadFile(data)

SpecGit == InitGit /\ [][NextGit]_vars

\* ------------------------------------------------------------------------
\* Properties of the argument list handed to the agent (SpecArgs)
\* ------------------------------------------------------------------------
Launched == agentProc # "none"

\* a token is the flag, or has the flag=value form
FlagMatches(tok, flag) == tok = flag \/ StartsWith(tok, flag \o Str(EQ))

CountFlag(args, flag) == Cardinality({i \in 1..Len(args) : FlagMatches(args[i], flag)})

\* what follows the template arguments and the passthrough tokens
ArgsTail == SubSeqFrom(spawned.args, Len(selected.args) + Len(passthrough) + 1)

HasPlaceholder == \E i \in 1..Len(selected.args) : IncludesAtom(selected.args[i], PH)

\* the text of the prompt occurs in an input that is not the prompt
PromptElsewhere ==
  \/ \E i \in 1..Len(selected.args) : Includes(selected.args[i], prompt)
  \/ \E i \in 1..Len(passthrough) : Includes(passthrough[i], prompt)
  \/ Includes(plan.modelFlag, prompt)
  \/ (options.modelId # Undefined /\ Includes(options.modelId, prompt))

\* C1 as stated: the final argument list of every launch ends with the
\* passthrough tokens, verbatim and in order
C1_PassthroughLast ==
  Launched =>
    /\ Len(spawned.args) >= Len(passthrough)
    /\ SubSeqFrom(spawned.args, Len(spawned.args) - Len(passthrough) + 1) = passthrough

\* C1 amended: the passthrough tokens follow the template arguments, verbatim,
\* in order and unbroken; after them come at most the model flag with its value
\* and then the prompt as one positional argument
C1_PassthroughAfterTemplate ==
  Launched =>
    LET n == Len(selected.args)
        k == Len(passthrough)
        pair == IF options.modelId # Undefined THEN {<<plan.modelFlag, options.modelId>>} ELSE {}
        last == IF prompt # <<>> THEN {<<prompt>>} ELSE {}
    IN /\ Len(spawned.args) >= n + k
       /\ SubSeq(spawned.args, n + 1, n + k) = passthrough
       /\ \A i \in 1..n : ~IncludesAtom(selected.args[i], PH) => spawned.args[i] = selected.args[i]
       /\ ArgsTail \in {<<>>} \cup pair \cup last \cup {x \o y : x \in pair, y \in last}

\* C1: a launch with two passthrough tokens, after which the model pair and the
\* prompt were appended
C1_Witness ==
  /\ Launched
  /\ Len(passthrough) >= 2
  /\ ArgsTail = <<plan.modelFlag, options.modelId, prompt>>

\* C2 as stated: with a model identifier and the flag already in the assembled
\* list, the final list contains the flag exactly once
C2_FlagOnce ==
  (Launched /\ options.modelId # Undefined /\ CountFlag(plan.assembled, plan.modelFlag) >= 1)
    => CountFlag(spawned.args, plan.modelFlag) = 1

\* C2 amended: with a model identifier and the flag already in the assembled
\* list, no flag/value pair is added: the final list is the assembled list, at
\* most followed by the prompt, and holds the flag once when the assembled list
\* holds it once and no prompt of the flag's form was appended
C2_NoPairAdded ==
  (Launched /\ options.modelId # Undefined /\ CountFlag(plan.assembled, plan.modelFlag) >= 1)
    => /\ spawned.args \in {plan.assembled, Append(plan.assembled, prompt)}
       /\ plan.assembled = SubSeq(spawned.args, 1, Len(selected.args)) \o passthrough
       /\ (/\ CountFlag(plan.assembled, plan.modelFlag) = 1
           /\ ~(spawned.args # plan.assembled /\ FlagMatches(prompt, plan.modelFlag)))
            => CountFlag(spawned.args, plan.modelFlag) = 1

\* C2: a launch with a model identifier where the only flag token has the
\* flag=value form, and the final list holds it once
C2_Witness ==
  /\ Launched
  /\ options.modelId # Undefined
  /\ CountFlag(plan.assembled, plan.modelFlag) = 1
  /\ ~hasFlagExact(plan.assembled, plan.modelFlag)
  /\ CountFlag(spawned.args, plan.modelFlag) = 1

\* C3 as stated: in input mode "none" the prompt reaches the child by no
\* channel: it is in no element of the final list and is not written to stdin
C3_NoneNeverDelivers ==
  (Launched /\ options.input = "none" /\ prompt # <<>> /\ ~PromptElsewhere)
    => /\ childStdin = <<>>
       /\ \A i \in 1..Len(spawned.args) : ~Includes(spawned.args[i], prompt)

\* C3 amended: in input mode "none" the prompt is never appended as an argument
\* and never written to stdin; it is in the final list only where a template
\* argument holds the placeholder
C3_NoneOnlySubstitutes ==
  (Launched /\ options.input = "none" /\ prompt # <<>>)
    => /\ childStdin = <<>>
       /\ ArgsTail \in {<<>>, <<plan.modelFlag, options.modelId>>}
       /\ ~PromptElsewhere =>
            \A i \in 1..Len(spawned.args) :
              Includes(spawned.args[i], prompt)
                => (i <= Len(selected.args) /\ IncludesAtom(selected.args[i], PH))

\* C3: a launch in mode "none" whose template holds the placeholder, so that
\* the prompt is in the final list
C3_Witness ==
  /\ Launched /\ options.input = "none" /\ prompt # <<>> /\ ~PromptElsewhere
  /\ HasPlaceholder
  /\ \E i \in 1..Len(spawned.args) : Includes(spawned.args[i], prompt)

\* the three channels, as the child sees them
ViaSubstitution ==
  \E i \in 1..Len(selected.args) : i <= Len(spawned.args) /\ spawned.args[i] # selected.args[i]

ViaAppend == Len(ArgsTail) \in {1, 3}

ViaStdin == childStdin # <<>>

\* C10 as stated: a non-empty prompt reaches the child through at most one of
\* substitution, appended argument and stdin
C10_OneChannel ==
  (Launched /\ prompt # <<>>)
    => Cardinality({c \in {"subst", "append", "stdin"} :
                      \/ c = "subst" /\ ViaSubstitution
                      \/ c = "append" /\ ViaAppend
                      \/ c = "stdin" /\ ViaStdin}) <= 1

\* C10 amended: the appended argument excludes both other channels; substitution
\* and the stdin write happen together only in input mode "stdin"
C10_AppendExclusive ==
  (Launched /\ prompt # <<>>)
    => /\ ~(ViaAppend /\ ViaSubstitution)
       /\ ~(ViaAppend /\ ViaStdin)
       /\ (ViaSubstitution /\ ViaStdin) => options.input = "stdin"
       /\ ViaStdin => childStdin = <<prompt>>
       /\ ViaAppend => spawned.args[Len(spawned.args)] = prompt

\* C10: a launch in mode "stdin" whose template holds the placeholder: the
\* prompt is substituted and written to stdin
C10_Witness == Launched /\ prompt # <<>> /\ ViaSubstitution /\ ViaStdin

\* ------------------------------------------------------------------------
\* Properties of the control flow (Spec)
\* ------------------------------------------------------------------------
Stopped == pc \in {"done", "crashed"}

\* C4 as stated: when the launch of the agent fails (the child emits "error"),
\* runAgent still returns a non-zero exit code as data and the tool does not crash
C4_LaunchFailureIsData ==
  agentProc = "failed" => (~crashed /\ runResult.exitCode # 0)

\* the diagnostics of a configuration error
ConfigMessages ==
  {"Missing agent.", "Unknown agent.", "Invalid agent", "Missing value for --model.",
   "The \"paths[0]\" argument must be of type string."}
    \cup {"Agent CLI not found: set AGENT_EXEC_" \o ToUpperCase(a) \o "_CMD." : a \in AgentNames}

ConfigError == \E i \in 1..Len(diag) : diag[i] \in ConfigMessages

\* npx is missing, or its launch failed
ForwardLaunchFailure ==
  \E i \in 1..Len(diag) :
    diag[i] \in {"npx is required to run the skills installer. Install Node.js 18+.",
                 "spawn error"}

\* the agent ran to its close event and main reached its end
RunCompleted == pc = "done" /\ agentProc = "closed"

\* C5 as stated, on the runs that no uncaught launch error ends: the exit code
\* is 0 whenever the control logic completes, and non-zero only for a
\* configuration error or a launch failure of the forwarding tool
C5_ExitOnlyForConfig ==
  (Stopped /\ ~crashed) =>
    /\ RunCompleted => ToolExit = 0
    /\ ToolExit # 0 => (ConfigError \/ ForwardLaunchFailure)

\* C5 amended: the exit code is 0 whenever the control logic completes after an
\* agent run, whatever the agent returned; it is non-zero only for a
\* configuration error, a launch failure of the forwarding tool, a non-zero exit
\* code of the forwarding tool, which the tool returns as its own, or an
\* uncaught launch error of the agent or of the status query
C5_ExitStatus ==
  Stopped =>
    /\ RunCompleted => (ToolExit = 0 /\ exitCode = 0)
    /\ ToolExit # 0 =>
         \/ ConfigError
         \/ ForwardLaunchFailure
         \/ (skillsProc = "closed" /\ ToolExit = exitCode)
         \/ (crashed /\ "failed" \in {agentProc, gitProc})

\* C5: the agent returned 2, the tool printed its diagnostic line and ends with 0
C5_Witness ==
  /\ RunCompleted
  /\ runResult.exitCode = 2
  /\ options.format = "text"
  /\ diag = <<"agent-exec exited with code 2">>
  /\ ToolExit = 0

ValueFlags ==
  {Str("-a"), Str("--agent"), Str("-d"), Str("--dir"), Str("-m"), Str("--model"),
   Str("--model-id"), Str("-f"), Str("--format"), Str("--input"), Str("--max-bytes")}

\* the flags among them that the amended claim covers
StrictFlags ==
  {Str("-a"), Str("--agent"), Str("-d"), Str("--dir"), Str("-m"), Str("--model"),
   Str("--model-id")}

\* the command line, read left to right up to the delimiter: a flag of F stands
\* last, with no token after it that could be its value
RECURSIVE LacksValue(_, _, _)
LacksValue(args, i, F) ==
  IF i > Len(args) \/ args[i] = Str("--") THEN FALSE
  ELSE IF args[i] \in ValueFlags
    THEN IF i = Len(args) THEN args[i] \in F ELSE LacksValue(args, i + 2, F)
  ELSE LacksValue(args, i + 1, F)

\* a help or list flag stands where a flag is read
RECURSIVE AsksHelpOrList(_, _)
AsksHelpOrList(args, i) ==
  IF i > Len(args) \/ args[i] = Str("--") THEN FALSE
  ELSE IF args[i] \in ValueFlags THEN AsksHelpOrList(args, i + 2)
  ELSE args[i] \in {Str("-h"), Str("--help"), Str("--list")} \/ AsksHelpOrList(args, i + 1)

ValidSelectors == {Str("codex"), Str("claude"), Str("cursor")}

\* the selector is missing or invalid: an agent flag names no known agent, or no
\* agent flag is given and the environment names none; ok is whether the
\* selector read so far is a known agent
RECURSIVE SelectorBad(_, _, _)
SelectorBad(args, i, ok) ==
  IF i > Len(args) \/ args[i] = Str("--") THEN ~ok
  ELSE IF args[i] \in {Str("-a"), Str("--agent")}
    THEN At(args, i + 1) \notin ValidSelectors \/ SelectorBad(args, i + 2, TRUE)
  ELSE IF args[i] \in ValueFlags THEN SelectorBad(args, i + 2, ok)
  ELSE SelectorBad(args, i + 1, ok)

EnvSelectorOk ==
  (IF "AGENT_EXEC_AGENT" \in DOMAIN env THEN env["AGENT_EXEC_AGENT"]
   ELSE IF "AGENT_RUN_AGENT" \in DOMAIN env THEN env["AGENT_RUN_AGENT"]
   ELSE Undefined) \in ValidSelectors

\* an invocation that asks for an agent run
AgentRunMode == ~IsSkills /\ ~AsksHelpOrList(argv, 1)

\* the upstream existence check did not find the executable
NotFoundReported ==
  \E i \in 1..Len(diag), a \in AgentNames :
    diag[i] = "Agent CLI not found: set AGENT_EXEC_" \o ToUpperCase(a) \o "_CMD."

Refused == agentProc = "none" /\ gitProc = "none" /\ (pc = "done" => (diag # <<>> /\ ToolExit # 0))

\* C6 as stated: in an agent run, a missing or invalid selector, a value-taking
\* flag without a value, or an executable the existence check does not find
\* ends in a diagnostic and a non-zero exit code, and nothing is launched
C6_RefusesBadConfig ==
  AgentRunMode =>
    /\ (SelectorBad(argv, 1, EnvSelectorOk) \/ LacksValue(argv, 1, ValueFlags)) => Refused
    /\ NotFoundReported => (Refused /\ pc = "done")

\* C6 amended: the same, for the agent, model and directory flags only: the
\* format, input mode and byte cap flags fall back to their defaults when they
\* have no value, and the run goes on
C6_RefusesStrictConfig ==
  AgentRunMode =>
    /\ (SelectorBad(argv, 1, EnvSelectorOk) \/ LacksValue(argv, 1, StrictFlags)) => Refused
    /\ NotFoundReported => (Refused /\ pc = "done")

\* C6: a run with a known agent whose model flag stands last was refused
C6_Witness ==
  /\ AgentRunMode
  /\ ~SelectorBad(argv, 1, EnvSelectorOk)
  /\ LacksValue(argv, 1, {Str("--model")})
  /\ pc = "done" /\ diag = <<"Missing value for --model.">> /\ ToolExit = 1
  /\ agentProc = "none" /\ gitProc = "none"

\* C7: the status query is started only after the agent has closed, the two
\* are never active together, and no status query is started for the text format
C7_QueryAfterAgent ==
  /\ ~(agentProc = "running" /\ gitProc = "running")
  /\ gitProc # "none" => (agentProc = "closed" /\ options.format = "json")
  /\ (Launched /\ options.format = "text") => gitProc = "none"

\* C7: the status query is running and the agent has closed
C7_Witness == gitProc = "running" /\ agentProc = "closed" /\ options.format = "json"

\* ------------------------------------------------------------------------
\* Properties of the change records (SpecGit)
\* ------------------------------------------------------------------------
HasNull(data, upTo) == \E k \in 1..Min(Len(data), upTo) : data[k] = 0

WasRead(i) == i <= Len(reads) /\ reads[i] \notin {ReadFails, NotRead}

\* C8: every change record has a non-empty path and a status code, content no
\* longer than the byte cap, no content when binary, content when truncated
C8_RecordShape ==
  \A i \in 1..Len(changes) :
    LET c == changes[i]
    IN /\ c.path # <<>>
       /\ Len(c.status) \in 1..2
       /\ c.content # NoContent => StringLength(c.content) <= options.maxBytes
       /\ c.binary => c.content = NoContent
       /\ c.truncated => c.content # NoContent

\* C8: a truncated record whose content ends in the replacement character of
\* a character the cap cut in two
C8_Witness ==
  \E i \in 1..Len(changes) :
    /\ changes[i].truncated
    /\ changes[i].content # NoContent
    /\ StringLength(changes[i].content) = options.maxBytes
    /\ changes[i].content[Len(changes[i].content)] = 65533

\* C9 as stated: a file with a null byte anywhere in it never gets content
C9_NullNeverContent ==
  \A i \in 1..Len(changes) :
    (options.includeContent /\ WasRead(i) /\ HasNull(reads[i], Len(reads[i])))
      => changes[i].content = NoContent

\* C9 amended: a file with a null byte in its first 8000 bytes never gets content
C9_NullInSampleNeverContent ==
  \A i \in 1..Len(changes) :
    (options.includeContent /\ WasRead(i) /\ HasNull(reads[i], SampleSize))
      => (changes[i].content = NoContent /\ changes[i].binary)

\* C9: a file whose only null byte is the last byte of the sample was reported
\* binary, without content
C9_Witness ==
  \E i \in 1..Len(changes) :
    /\ WasRead(i)
    /\ Len(reads[i]) = SampleSize
    /\ reads[i][SampleSize] = 0
    /\ ~HasNull(reads[i], SampleSize - 1)
    /\ changes[i].binary /\ changes[i].content = NoContent

====
